---- MODULE Spec2Model ----
(***************************************************************************)
(* FutbolApp backend: an Express server over a PostgreSQL store.           *)
(*                                                                         *)
(* The repository holds several revisions of the same index.js:            *)
(*   revision 1  src/index.js lines 1..240    (register, login, shop)      *)
(*   revision 2  src/index.js lines 241..558  (adds preferences, wishlist) *)
(*   revision 3  src/unnamed/part_000         (Google sign-in only)        *)
(* Each revision is a program of its own (same top-level constants, and    *)
(* usuarios schemas that do not agree), so the deployed revision is fixed  *)
(* when the server starts.  A request is handled in the steps Node gives   *)
(* it: the synchronous part up to the first await, then one step per SQL   *)
(* statement, each statement atomic in the store.                          *)
(***************************************************************************)
EXTENDS Integers, Sequences, FiniteSets, TLC

VARIABLES
  revision,              \* which revision of index.js is deployed
  usuarios,              \* table usuarios
  usuarios_id_seq,       \* SERIAL sequence of usuarios.id
  carrito,               \* table carrito
  carrito_id_seq,        \* SERIAL sequence of carrito.id
  preferencias_usuario,  \* table preferencias_usuario
  preferencias_id_seq,   \* SERIAL sequence of preferencias_usuario.id
  camisetas_guardadas,   \* table camisetas_guardadas
  reqs,                  \* the requests being served, one per connection
  clock,                 \* wall clock, in days
  issued,                \* session tokens handed to clients so far
  nreq,                  \* requests received so far
  pedido,                \* history: per (user, product), what successful adds asked for
  registrados            \* history: what each successful Register was sent and answered

vars == << revision, usuarios, usuarios_id_seq, carrito, carrito_id_seq,
           preferencias_usuario, preferencias_id_seq, camisetas_guardadas,
           reqs, clock, issued, nreq, pedido, registrados >>

hist == << pedido, registrados >>

db == << usuarios, usuarios_id_seq, carrito, carrito_id_seq,
         preferencias_usuario, preferencias_id_seq, camisetas_guardadas >>

-----------------------------------------------------------------------------
(* Bounds of the model *)

MaxRequests == 3        \* requests received in one behaviour
MaxConn     == 2        \* requests served at the same time
MaxTicks    == 1        \* times the clock advances

(* Program constants *)

ExpiresInDays == 7      \* jwt.sign(..., { expiresIn: '7d' })
VarcharNombre == 100    \* nombre VARCHAR(100), equipo_favorito_nombre VARCHAR(100)
VarcharEmail  == 100    \* email VARCHAR(100)
VarcharLogo   == 255    \* equipo_favorito_logo VARCHAR(255)
IntMax        == 2147483647   \* cantidad INT

BcryptRounds  == 10     \* bcrypt.genSalt(10)

JWT_SECRET == "JWT_SECRET"   \* process.env.JWT_SECRET

Conn == 1..MaxConn

-----------------------------------------------------------------------------
(* Values the clients send *)

Str10  == "0123456789"
Str50  == Str10 \o Str10 \o Str10 \o Str10 \o Str10
Str101 == Str50 \o Str50 \o "x"

Salts     == {"salt1", "salt2"}     \* what bcrypt.genSalt may return

\* An optional value: <<>> when absent (undefined, NULL), <<v>> when present.
Some(v) == << v >>
None    == << >>
IsNone(m) == Len(m) = 0
Val(m)  == m[1]

-----------------------------------------------------------------------------
(* jsonwebtoken.  The signature is a keyed digest of the payload: it is     *)
(* equal to another one only for the same key and the same payload.         *)

Hmac(secret, payload) == << secret, payload >>

JwtPayload(tok) ==
  [userId |-> tok.userId, email |-> tok.email, iat |-> tok.iat, exp |-> tok.exp]

JwtSign(userId, email, secret, now) ==
  LET payload == [userId |-> userId, email |-> email,
                  iat |-> now, exp |-> now + ExpiresInDays]
  IN  [t |-> "jwt", userId |-> userId, email |-> email,
       iat |-> payload.iat, exp |-> payload.exp, sig |-> Hmac(secret, payload)]

\* jwt.verify(token, secret, cb): `word` is the text handed in as the token.
\* The result is [err, user]: the callback's two arguments.
JwtVerify(word, secret, now) ==
  IF /\ Len(word) = 1
     /\ word[1].t = "jwt"
     /\ word[1].sig = Hmac(secret, JwtPayload(word[1]))
     /\ now < word[1].exp
  THEN [err |-> FALSE, user |-> Some(JwtPayload(word[1]))]
  ELSE [err |-> TRUE, user |-> None]

-----------------------------------------------------------------------------
(* bcrypt *)

BcryptHash(password, salt) ==
  [rounds |-> BcryptRounds, salt |-> salt, digest |-> << salt, password >>]

\* comparing by hashing again, under a salt of its own
BcryptCompare_Rehash(password, hash) == hash = BcryptHash(password, "salt1")

\* bcrypt.compare(password, hash): hashes under the salt kept in `hash`
BcryptCompare(password, hash) == hash.digest = << hash.salt, password >>

-----------------------------------------------------------------------------
(* The Authorization header is a text: a sequence of words and spaces.      *)

SP        == [t |-> "sp"]
Word(s)   == [t |-> "txt", s |-> s]

RECURSIVE SplitSp(_)
\* String.prototype.split(' '): the pieces between the spaces, empty ones kept.
SplitSp(text) ==
  IF \A k \in 1..Len(text) : text[k].t # "sp"
  THEN << text >>
  ELSE LET k == CHOOSE j \in 1..Len(text) :
                  /\ text[j].t = "sp"
                  /\ \A h \in 1..(j - 1) : text[h].t # "sp"
       IN  << SubSeq(text, 1, k - 1) >> \o SplitSp(SubSeq(text, k + 1, Len(text)))

\* const token = authHeader && authHeader.split(' ')[1];
\* authHeader is None when the request has no such header.
BearerToken(authHeader) ==
  IF IsNone(authHeader) THEN None
  ELSE IF Val(authHeader) = << >> THEN Some(<< >>)   \* '' is falsy: token = ''
  ELSE LET parts == SplitSp(Val(authHeader))
       IN  IF Len(parts) >= 2 THEN Some(parts[2]) ELSE None

\* authenticateToken: the status it answers (0: it called next()) and req.user.
AuthenticateToken(authHeader, now) ==
  LET token == BearerToken(authHeader) IN
  IF IsNone(token) THEN [status |-> 401, user |-> None]
  ELSE LET v == JwtVerify(Val(token), JWT_SECRET, now)
       IN  IF v.err THEN [status |-> 403, user |-> None]
           ELSE [status |-> 0, user |-> v.user]

-----------------------------------------------------------------------------
(* The store.  A statement is an operator from the tables as they are to    *)
(* [code, rows, row]: the SQLSTATE it fails with ("" when it succeeds), the *)
(* table after it, and the rows it returns.                                 *)

Ok == ""
UniqueViolation  == "23505"
NotNullViolation == "23502"
FkViolation      == "23503"
StringTooLong    == "22001"
IntOutOfRange    == "22003"

\* seedDatabase: the rows of equipos and productos (ids from the sequences).
equipos ==
  { [id |-> 1, nombre |-> "LDU Quito"], [id |-> 2, nombre |-> "Barcelona SC"] }

productos ==
  { [id |-> 1, nombre |-> "Camiseta LDU Quito (Local) 2025", equipo_id |-> 1],
    [id |-> 2, nombre |-> "Camiseta Barcelona SC (Local) 2025", equipo_id |-> 2] }

Ids(tbl) == { r.id : r \in tbl }

TooLong(m, n) == ~IsNone(m) /\ Len(Val(m)) > n

\* usuarios.password is NOT NULL in revisions 1 and 2, nullable in revision 3.
PasswordNotNull == revision \in {1, 2}

\* the INSERT on a table whose email column lost its UNIQUE constraint
InsertUsuario_NoUniqueEmail(nombre, email, password, google_id) ==
  LET row == [id |-> usuarios_id_seq, nombre |-> Val(nombre), email |-> Val(email),
              password |-> password, google_id |-> google_id]
      code ==
        IF TooLong(nombre, VarcharNombre) \/ TooLong(email, VarcharEmail)
          THEN StringTooLong
        ELSE IF IsNone(nombre) \/ IsNone(email) \/ (PasswordNotNull /\ IsNone(password))
          THEN NotNullViolation
        ELSE IF ~IsNone(google_id) /\ \E u \in usuarios : u.google_id = google_id
          THEN UniqueViolation
        ELSE Ok
  IN  [code |-> code,
       rows |-> IF code = Ok THEN usuarios \cup {row} ELSE usuarios,
       row  |-> IF code = Ok THEN {row} ELSE {}]

\* INSERT INTO usuarios (nombre, email, password, google_id) VALUES (...)
\* RETURNING *.  Every argument is optional (None is NULL).
InsertUsuario(nombre, email, password, google_id) ==
  LET row == [id |-> usuarios_id_seq, nombre |-> Val(nombre), email |-> Val(email),
              password |-> password, google_id |-> google_id]
      code ==
        IF TooLong(nombre, VarcharNombre) \/ TooLong(email, VarcharEmail)
          THEN StringTooLong
        ELSE IF IsNone(nombre) \/ IsNone(email) \/ (PasswordNotNull /\ IsNone(password))
          THEN NotNullViolation
        ELSE IF \E u \in usuarios : u.email = Val(email)
          THEN UniqueViolation
        ELSE IF ~IsNone(google_id) /\ \E u \in usuarios : u.google_id = google_id
          THEN UniqueViolation
        ELSE Ok
  IN  [code |-> code,
       rows |-> IF code = Ok THEN usuarios \cup {row} ELSE usuarios,
       row  |-> IF code = Ok THEN {row} ELSE {}]

\* SELECT * FROM usuarios WHERE email = $1
SelectUsuarioByEmail(email) == { u \in usuarios : u.email = email }

\* UPDATE usuarios SET google_id = $1 WHERE email = $2
UpdateGoogleId(google_id, email) ==
  LET hit  == { u \in usuarios : u.email = email }
      code == IF hit # {} /\ \E u \in usuarios \ hit : u.google_id = Some(google_id)
              THEN UniqueViolation ELSE Ok
  IN  [code |-> code,
       rows |-> IF code = Ok
                THEN (usuarios \ hit) \cup
                     { [u EXCEPT !.google_id = Some(google_id)] : u \in hit }
                ELSE usuarios,
       row  |-> {}]

\* the upsert with DO UPDATE SET cantidad = EXCLUDED.cantidad: the last add wins
CarritoUpsert_LastWins(usuario_id, producto_id, cantidad) ==
  LET hit == { c \in carrito : /\ c.usuario_id = usuario_id
                                /\ Some(c.producto_id) = producto_id }
      new == [id |-> carrito_id_seq, usuario_id |-> usuario_id,
              producto_id |-> Val(producto_id), cantidad |-> Val(cantidad)]
      upd == { [c EXCEPT !.cantidad = Val(cantidad)] : c \in hit }
      code ==
        IF IsNone(producto_id) \/ IsNone(cantidad) THEN NotNullViolation
        ELSE IF hit # {} THEN Ok
        ELSE IF usuario_id \notin Ids(usuarios) \/ Val(producto_id) \notin Ids(productos)
          THEN FkViolation
        ELSE Ok
  IN  [code |-> code,
       rows |-> IF code # Ok THEN carrito
                ELSE IF hit # {} THEN (carrito \ hit) \cup upd
                ELSE carrito \cup {new},
       row  |-> IF code # Ok THEN {} ELSE IF hit # {} THEN upd ELSE {new}]

\* INSERT INTO carrito (usuario_id, producto_id, cantidad) VALUES ($1, $2, $3)
\* ON CONFLICT (usuario_id, producto_id)
\* DO UPDATE SET cantidad = carrito.cantidad + $3 RETURNING *
\* One statement: the conflict is found and resolved inside it.
CarritoUpsert(usuario_id, producto_id, cantidad) ==
  LET hit == { c \in carrito : /\ c.usuario_id = usuario_id
                                /\ Some(c.producto_id) = producto_id }
      new == [id |-> carrito_id_seq, usuario_id |-> usuario_id,
              producto_id |-> Val(producto_id), cantidad |-> Val(cantidad)]
      upd == { [c EXCEPT !.cantidad = c.cantidad + Val(cantidad)] : c \in hit }
      code ==
        IF IsNone(producto_id) \/ IsNone(cantidad) THEN NotNullViolation
        ELSE IF Val(cantidad) > IntMax \/ Val(cantidad) < -IntMax - 1 THEN IntOutOfRange
        ELSE IF hit # {}
          THEN IF \E c \in upd : c.cantidad > IntMax \/ c.cantidad < -IntMax - 1
               THEN IntOutOfRange ELSE Ok
        ELSE IF usuario_id \notin Ids(usuarios) \/ Val(producto_id) \notin Ids(productos)
          THEN FkViolation
        ELSE Ok
  IN  [code |-> code,
       rows |-> IF code # Ok THEN carrito
                ELSE IF hit # {} THEN (carrito \ hit) \cup upd
                ELSE carrito \cup {new},
       row  |-> IF code # Ok THEN {} ELSE IF hit # {} THEN upd ELSE {new}]

\* SELECT c.id as carrito_id, c.cantidad, p.* FROM carrito c
\* JOIN productos p ON c.producto_id = p.id WHERE c.usuario_id = $1
SelectCarrito(usuario_id) ==
  { [carrito_id |-> c.id, cantidad |-> c.cantidad, id |-> p.id,
     nombre |-> p.nombre, equipo_id |-> p.equipo_id] :
      << c, p >> \in { x \in carrito \X productos :
                         /\ x[1].producto_id = x[2].id
                         /\ x[1].usuario_id = usuario_id } }

\* the upsert with ON CONFLICT (usuario_id) DO NOTHING: the first row stays
PreferenciasUpsert_DoNothing(usuario_id, equipo_id, nombre, logo) ==
  LET hit == { r \in preferencias_usuario : r.usuario_id = usuario_id }
      new == [id |-> preferencias_id_seq, usuario_id |-> usuario_id,
              equipo_favorito_id |-> equipo_id,
              equipo_favorito_nombre |-> nombre,
              equipo_favorito_logo |-> logo]
      code ==
        IF Len(nombre) > VarcharNombre \/ Len(logo) > VarcharLogo THEN StringTooLong
        ELSE IF hit # {} THEN Ok
        ELSE IF usuario_id \notin Ids(usuarios) THEN FkViolation
        ELSE Ok
  IN  [code |-> code,
       rows |-> IF code # Ok \/ hit # {} THEN preferencias_usuario
                ELSE preferencias_usuario \cup {new},
       row  |-> IF code # Ok THEN {} ELSE IF hit # {} THEN hit ELSE {new}]

\* INSERT INTO preferencias_usuario (...) VALUES ($1, $2, $3, $4)
\* ON CONFLICT (usuario_id) DO UPDATE SET equipo_favorito_id = $2,
\* equipo_favorito_nombre = $3, equipo_favorito_logo = $4 RETURNING *
PreferenciasUpsert(usuario_id, equipo_id, nombre, logo) ==
  LET hit == { r \in preferencias_usuario : r.usuario_id = usuario_id }
      new == [id |-> preferencias_id_seq, usuario_id |-> usuario_id,
              equipo_favorito_id |-> equipo_id,
              equipo_favorito_nombre |-> nombre,
              equipo_favorito_logo |-> logo]
      upd == { [r EXCEPT !.equipo_favorito_id = equipo_id,
                         !.equipo_favorito_nombre = nombre,
                         !.equipo_favorito_logo = logo] : r \in hit }
      code ==
        IF Len(nombre) > VarcharNombre \/ Len(logo) > VarcharLogo THEN StringTooLong
        ELSE IF hit # {} THEN Ok
        ELSE IF usuario_id \notin Ids(usuarios) THEN FkViolation
        ELSE Ok
  IN  [code |-> code,
       rows |-> IF code # Ok THEN preferencias_usuario
                ELSE IF hit # {} THEN (preferencias_usuario \ hit) \cup upd
                ELSE preferencias_usuario \cup {new},
       row  |-> IF code # Ok THEN {} ELSE IF hit # {} THEN upd ELSE {new}]

\* SELECT * FROM preferencias_usuario WHERE usuario_id = $1
SelectPreferencias(usuario_id) ==
  { r \in preferencias_usuario : r.usuario_id = usuario_id }

\* SELECT p.* FROM camisetas_guardadas cs JOIN productos p
\* ON cs.producto_id = p.id WHERE cs.usuario_id = $1
SelectCamisetas(usuario_id) ==
  { p \in productos : \E cs \in camisetas_guardadas :
                          cs.producto_id = p.id /\ cs.usuario_id = usuario_id }

\* SELECT p.*, e.nombre as equipo_nombre FROM productos p JOIN equipos e
\* ON p.equipo_id = e.id [WHERE p.equipo_id = $1]
SelectProductos(equipo_id) ==
  { [id |-> p.id, nombre |-> p.nombre, equipo_id |-> p.equipo_id,
     equipo_nombre |-> e.nombre] :
      << p, e >> \in { x \in productos \X equipos :
                         /\ x[1].equipo_id = x[2].id
                         /\ (IsNone(equipo_id) \/ x[1].equipo_id = Val(equipo_id)) } }

\* SELECT * FROM equipos ORDER BY nombre ASC
SelectEquipos ==
  << [id |-> 2, nombre |-> "Barcelona SC"], [id |-> 1, nombre |-> "LDU Quito"] >>

-----------------------------------------------------------------------------
(* Requests.  reqs[i] is the request served on connection i:                *)
(*   pc      "idle", a handler's await point, "done" (response sent) or     *)
(*           "hung" (the handler's promise rejected, nothing was sent)      *)
(*   header  the Authorization header, user  req.user, body  req.body,      *)
(*   loc     the handler's local variables, status/out  the response,       *)
(*   n       its number in the order of arrival, fin  the number of         *)
(*           requests that had arrived when it ended.                       *)

Idle == [pc |-> "idle", route |-> "", header |-> None, user |-> None,
         body |-> << >>, loc |-> << >>, status |-> 0, out |-> << >>,
         n |-> 0, fin |-> 0]

\* req.body.f, None when the body has no such field.
Get(body, f) == IF f \in DOMAIN body THEN Some(body[f]) ELSE None

\* !x for a text and for a number
FalsyStr(m) == IsNone(m) \/ Val(m) = ""
FalsyInt(m) == IsNone(m) \/ Val(m) = 0

Free(i) == reqs[i].pc \in {"idle", "done", "hung"}

\* A new request takes the first connection that serves none.
Accept(i) ==
  /\ nreq < MaxRequests
  /\ Free(i)
  /\ \A j \in Conn : j < i => ~Free(j)
  /\ nreq' = nreq + 1

NewReq(route, header, body) ==
  [Idle EXCEPT !.route = route, !.header = header, !.body = body, !.n = nreq + 1]

Arrived(r) == IF r.n > nreq THEN r.n ELSE nreq

\* res.status(status).json(out)
Respond(r, status, out) ==
  [r EXCEPT !.pc = "done", !.status = status, !.out = out, !.fin = Arrived(r)]

\* the handler's promise rejects with nothing to catch it: no response
Reject(r, code) ==
  [r EXCEPT !.pc = "hung", !.out = [error |-> code], !.fin = Arrived(r)]

\* What becomes of a rejection that no handler catches depends on the build:
\* Express 4 drops it and the request stays pending; on Node 15 and later the
\* unhandled rejection then ends the process, and every request in flight is
\* lost with it; Express 5 passes it to its default error handler, which
\* answers 500.
Unhandled == {"pending", "exit", "errorHandler"}

\* request j when the process ends
Abandon(j) ==
  IF reqs[j].pc \in {"idle", "done", "hung"} THEN reqs[j]
  ELSE [reqs[j] EXCEPT !.pc = "hung", !.fin = Arrived(reqs[j])]

\* the requests after the query of request i rejected with `code`
Rejected(i, code, how) ==
  IF how = "errorHandler"
  THEN [reqs EXCEPT ![i] = Respond(reqs[i], 500, [error |-> code])]
  ELSE IF how = "exit"
  THEN [j \in Conn |-> IF j = i THEN Reject(reqs[i], code) ELSE Abandon(j)]
  ELSE [reqs EXCEPT ![i] = Reject(reqs[i], code)]

\* requests i and j were being served at the same time
Overlap(i, j) ==
  /\ i # j
  /\ reqs[i].n > 0 /\ reqs[j].n > 0
  /\ reqs[i].pc \in {"done", "hung"} => reqs[j].n <= reqs[i].fin
  /\ reqs[j].pc \in {"done", "hung"} => reqs[i].n <= reqs[j].fin

Msg(m) == [message |-> m]

Public(u) == [id |-> u.id, nombre |-> u.nombre, email |-> u.email]

-----------------------------------------------------------------------------
(* POST /auth/register *)

\* up to `await bcrypt.hash(password, salt)`
Register(i, body) ==
  /\ revision \in {1, 2}
  /\ Accept(i)
  /\ LET r == NewReq("POST /auth/register", None, body) IN
     IF \/ FalsyStr(Get(body, "nombre"))
        \/ FalsyStr(Get(body, "email"))
        \/ FalsyStr(Get(body, "password"))
     THEN reqs' = [reqs EXCEPT ![i] =
            Respond(r, 400, Msg("Nombre, email y contrasena son requeridos."))]
     ELSE \E salt \in Salts :
            reqs' = [reqs EXCEPT ![i] =
              [r EXCEPT !.pc = "insert",
                        !.loc = [passwordHash |-> BcryptHash(body.password, salt)]]]
  /\ UNCHANGED << revision, db, clock, issued, hist >>

\* the INSERT, and the rest of the handler
RegisterInsert(i) ==
  LET r   == reqs[i]
      ins == InsertUsuario(Get(r.body, "nombre"), Get(r.body, "email"),
                           Some(r.loc.passwordHash), None)
  IN
  /\ r.route = "POST /auth/register" /\ r.pc = "insert"
  /\ usuarios' = ins.rows
  /\ usuarios_id_seq' = usuarios_id_seq + 1
  /\ IF ins.code = Ok
     THEN LET usuario == Public(CHOOSE u \in ins.row : TRUE)
              token   == JwtSign(usuario.id, usuario.email, JWT_SECRET, clock)
          IN  /\ reqs' = [reqs EXCEPT ![i] = Respond(r, 201,
                    [message |-> "Usuario registrado con exito",
                     token |-> token, usuario |-> usuario])]
              /\ issued' = issued \cup {token}
              /\ registrados' = registrados \cup
                    { [email |-> r.body.email, password |-> r.body.password,
                       id |-> usuario.id, n |-> r.n] }
     ELSE /\ reqs' = [reqs EXCEPT ![i] =
                IF ins.code = UniqueViolation
                THEN Respond(r, 409, Msg("El correo electronico ya esta registrado."))
                ELSE Respond(r, 500, Msg("Error interno del servidor"))]
          /\ UNCHANGED << issued, registrados >>
  /\ UNCHANGED << revision, carrito, carrito_id_seq, preferencias_usuario,
                  preferencias_id_seq, camisetas_guardadas, clock, nreq, pedido >>

-----------------------------------------------------------------------------
(* POST /auth/login *)

Login(i, body) ==
  /\ revision \in {1, 2}
  /\ Accept(i)
  /\ LET r == NewReq("POST /auth/login", None, body) IN
     reqs' = [reqs EXCEPT ![i] =
       IF FalsyStr(Get(body, "email")) \/ FalsyStr(Get(body, "password"))
       THEN Respond(r, 400, Msg("Email y contrasena son requeridos."))
       ELSE [r EXCEPT !.pc = "select"]]
  /\ UNCHANGED << revision, db, clock, issued, hist >>

\* the handler answering 404 when no user has the email
LoginSelect_Leaky(i) ==
  LET r    == reqs[i]
      rows == SelectUsuarioByEmail(r.body.email)
  IN
  /\ r.route = "POST /auth/login" /\ r.pc = "select"
  /\ IF rows = {}
     THEN /\ reqs' = [reqs EXCEPT ![i] = Respond(r, 404, Msg("Usuario no encontrado."))]
          /\ UNCHANGED issued
     ELSE LET usuario == CHOOSE u \in rows : TRUE IN
          IF ~BcryptCompare(r.body.password, Val(usuario.password))
          THEN /\ reqs' = [reqs EXCEPT ![i] = Respond(r, 401, Msg("Credenciales incorrectas."))]
               /\ UNCHANGED issued
          ELSE LET token == JwtSign(usuario.id, usuario.email, JWT_SECRET, clock) IN
               /\ reqs' = [reqs EXCEPT ![i] = Respond(r, 200,
                     [message |-> "Inicio de sesion exitoso",
                      token |-> token, usuario |-> Public(usuario)])]
               /\ issued' = issued \cup {token}
  /\ UNCHANGED << revision, db, clock, nreq, hist >>

\* the SELECT, bcrypt.compare and the rest of the handler
LoginSelect(i) ==
  LET r    == reqs[i]
      rows == SelectUsuarioByEmail(r.body.email)
  IN
  /\ r.route = "POST /auth/login" /\ r.pc = "select"
  /\ IF rows = {}
     THEN /\ reqs' = [reqs EXCEPT ![i] = Respond(r, 401, Msg("Credenciales incorrectas."))]
          /\ UNCHANGED issued
     ELSE LET usuario == CHOOSE u \in rows : TRUE IN
          IF IsNone(usuario.password)
          THEN \* bcrypt.compare(password, null) rejects: the catch answers 500
               /\ reqs' = [reqs EXCEPT ![i] = Respond(r, 500, Msg("Error interno del servidor"))]
               /\ UNCHANGED issued
          ELSE IF ~BcryptCompare(r.body.password, Val(usuario.password))
          THEN /\ reqs' = [reqs EXCEPT ![i] = Respond(r, 401, Msg("Credenciales incorrectas."))]
               /\ UNCHANGED issued
          ELSE LET token == JwtSign(usuario.id, usuario.email, JWT_SECRET, clock) IN
               /\ reqs' = [reqs EXCEPT ![i] = Respond(r, 200,
                     [message |-> "Inicio de sesion exitoso",
                      token |-> token, usuario |-> Public(usuario)])]
               /\ issued' = issued \cup {token}
  /\ UNCHANGED << revision, db, clock, nreq, hist >>

-----------------------------------------------------------------------------
(* POST /auth/google (revision 3).  An idToken is [valid, sub, email, name]: *)
(* whether Google's library accepts it for this audience, and its payload   *)
(* (name is optional).                                                      *)

\* googleClient.verifyIdToken(...).getPayload(): None when it throws
VerifyIdToken(idToken) ==
  IF IsNone(idToken) \/ ~Val(idToken).valid THEN None
  ELSE Some([sub |-> Val(idToken).sub, email |-> Val(idToken).email,
             name |-> Val(idToken).name])

GoogleOut(usuario) ==
  [message |-> "Autenticacion exitosa",
   token |-> JwtSign(usuario.id, usuario.email, JWT_SECRET, clock),
   usuario |-> Public(usuario)]

\* the catch: res.status(401).json({ message, error: error.message })
GoogleFail(error) == [message |-> "Autenticacion fallida", error |-> error]

\* up to the SELECT: googleClient.verifyIdToken and getPayload
Google(i, body) ==
  /\ revision = 3
  /\ Accept(i)
  /\ LET r == NewReq("POST /auth/google", None, body)
         ticket == VerifyIdToken(Get(body, "idToken"))
     IN
     reqs' = [reqs EXCEPT ![i] =
       IF IsNone(ticket) THEN Respond(r, 401, GoogleFail("verifyIdToken"))
       ELSE [r EXCEPT !.pc = "select",
                      !.loc = [google_id |-> Val(ticket).sub,
                               email |-> Val(ticket).email,
                               name |-> Val(ticket).name]]]
  /\ UNCHANGED << revision, db, clock, issued, hist >>

\* the SELECT by email and the branch on its result
GoogleSelect(i) ==
  LET r    == reqs[i]
      rows == SelectUsuarioByEmail(r.loc.email)
  IN
  /\ r.route = "POST /auth/google" /\ r.pc = "select"
  /\ IF rows = {}
     THEN /\ reqs' = [reqs EXCEPT ![i] = [r EXCEPT !.pc = "insert"]]
          /\ UNCHANGED issued
     ELSE LET usuario == CHOOSE u \in rows : TRUE IN
          IF FalsyStr(usuario.google_id)
          THEN /\ reqs' = [reqs EXCEPT ![i] =
                     [r EXCEPT !.pc = "update",
                               !.loc = [google_id |-> r.loc.google_id,
                                        email |-> r.loc.email,
                                        name |-> r.loc.name,
                                        usuario |-> usuario]]]
               /\ UNCHANGED issued
          ELSE /\ reqs' = [reqs EXCEPT ![i] = Respond(r, 200, GoogleOut(usuario))]
               /\ issued' = issued \cup {GoogleOut(usuario).token}
  /\ UNCHANGED << revision, db, clock, nreq, hist >>

\* 3A: the UPDATE that attaches google_id; usuario is the row the SELECT gave
GoogleUpdate(i) ==
  LET r   == reqs[i]
      upd == UpdateGoogleId(r.loc.google_id, r.loc.email)
      usuario == r.loc.usuario
  IN
  /\ r.route = "POST /auth/google" /\ r.pc = "update"
  /\ usuarios' = upd.rows
  /\ IF upd.code = Ok
     THEN /\ reqs' = [reqs EXCEPT ![i] = Respond(r, 200, GoogleOut(usuario))]
          /\ issued' = issued \cup {GoogleOut(usuario).token}
     ELSE /\ reqs' = [reqs EXCEPT ![i] = Respond(r, 401, GoogleFail(upd.code))]
          /\ UNCHANGED issued
  /\ UNCHANGED << revision, usuarios_id_seq, carrito, carrito_id_seq,
                  preferencias_usuario, preferencias_id_seq, camisetas_guardadas,
                  clock, nreq, hist >>

\* 3B: the INSERT of a user with no password
GoogleInsert(i) ==
  LET r   == reqs[i]
      ins == InsertUsuario(r.loc.name, Some(r.loc.email), None, Some(r.loc.google_id))
  IN
  /\ r.route = "POST /auth/google" /\ r.pc = "insert"
  /\ usuarios' = ins.rows
  /\ usuarios_id_seq' = usuarios_id_seq + 1
  /\ IF ins.code = Ok
     THEN LET usuario == CHOOSE u \in ins.row : TRUE IN
          /\ reqs' = [reqs EXCEPT ![i] = Respond(r, 200, GoogleOut(usuario))]
          /\ issued' = issued \cup {GoogleOut(usuario).token}
     ELSE /\ reqs' = [reqs EXCEPT ![i] = Respond(r, 401, GoogleFail(ins.code))]
          /\ UNCHANGED issued
  /\ UNCHANGED << revision, carrito, carrito_id_seq, preferencias_usuario,
                  preferencias_id_seq, camisetas_guardadas, clock, nreq, hist >>

-----------------------------------------------------------------------------
(* The protected routes: authenticateToken, then the handler.               *)

Routes ==
  IF revision = 1 THEN
    { "GET /api/equipos", "GET /api/productos", "GET /api/carrito",
      "POST /api/carrito/add" }
  ELSE IF revision = 2 THEN
    { "GET /api/productos", "POST /api/carrito/add", "GET /api/carrito",
      "GET /api/preferencias", "POST /api/preferencias",
      "GET /api/camisetas-guardadas", "GET /api/equipos-liga-pro" }
  ELSE { }

\* the handler of `route` up to its first await, req.user set
Handler(r) ==
  IF r.route = "POST /api/carrito/add" THEN
    LET cantidad == Get(r.body, "cantidad") IN
    [r EXCEPT !.pc = "query",
              !.loc = [producto_id |-> Get(r.body, "producto_id"),
                       cantidad |-> IF revision = 2 /\ FalsyInt(cantidad)
                                    THEN Some(1) ELSE cantidad]]
  ELSE IF r.route = "POST /api/preferencias" THEN
    IF \/ FalsyInt(Get(r.body, "equipo_id"))
       \/ FalsyStr(Get(r.body, "nombre"))
       \/ FalsyStr(Get(r.body, "logo"))
    THEN Respond(r, 400, Msg("Se requiere ID, nombre y logo del equipo."))
    ELSE [r EXCEPT !.pc = "query"]
  ELSE [r EXCEPT !.pc = "query"]

Api(i, route, header, body) ==
  /\ route \in Routes
  /\ Accept(i)
  /\ LET r == NewReq(route, header, body)
         a == AuthenticateToken(header, clock)
     IN  reqs' = [reqs EXCEPT ![i] =
           IF a.status = 401 THEN Respond(r, 401, Msg("Token requerido."))
           ELSE IF a.status = 403 THEN Respond(r, 403, Msg("Token invalido."))
           ELSE Handler([r EXCEPT !.user = a.user])]
  /\ UNCHANGED << revision, db, clock, issued, hist >>

AtQuery(i, route) == reqs[i].route = route /\ reqs[i].pc = "query"

\* the owner taken from the request body when it names one
UserId_FromBody(r) ==
  IF "usuario_id" \in DOMAIN r.body THEN r.body.usuario_id ELSE Val(r.user).userId

\* req.user.userId
UserId(r) == Val(r.user).userId

\* history: a successful add of product p by user u that asked for q and
\* handed d to the store
Pedir(u, p, q, d) ==
  LET old == { e \in pedido : e.usuario_id = u /\ e.producto_id = p } IN
  IF old = {}
  THEN pedido \cup { [usuario_id |-> u, producto_id |-> p, n |-> 1,
                      suma |-> q, dado |-> d] }
  ELSE (pedido \ old) \cup
       { [e EXCEPT !.n = e.n + 1, !.suma = e.suma + q, !.dado = e.dado + d] : e \in old }

\* POST /api/carrito/add: the upsert and the response
CarritoAdd(i) ==
  LET r   == reqs[i]
      res == CarritoUpsert(UserId(r), r.loc.producto_id, r.loc.cantidad)
      q   == Get(r.body, "cantidad")
  IN
  /\ AtQuery(i, "POST /api/carrito/add")
  /\ carrito' = res.rows
  /\ carrito_id_seq' = carrito_id_seq + 1
  /\ IF res.code = Ok
     THEN /\ reqs' = [reqs EXCEPT ![i] = Respond(r, 201, CHOOSE c \in res.row : TRUE)]
          /\ pedido' = Pedir(UserId(r), Val(r.loc.producto_id),
                             IF IsNone(q) THEN 1 ELSE Val(q), Val(r.loc.cantidad))
     ELSE /\ \E how \in Unhandled : reqs' = Rejected(i, res.code, how)
          /\ UNCHANGED pedido
  /\ UNCHANGED << revision, usuarios, usuarios_id_seq, preferencias_usuario,
                  preferencias_id_seq, camisetas_guardadas, clock, issued, nreq,
                  registrados >>

\* GET /api/carrito
CarritoGet(i) ==
  /\ AtQuery(i, "GET /api/carrito")
  /\ reqs' = [reqs EXCEPT ![i] = Respond(@, 200, [rows |-> SelectCarrito(UserId(@))])]
  /\ UNCHANGED << revision, db, clock, issued, nreq, hist >>

\* GET /api/productos
ProductosGet(i) ==
  /\ AtQuery(i, "GET /api/productos")
  /\ reqs' = [reqs EXCEPT ![i] = Respond(@, 200,
        [rows |-> SelectProductos(IF revision = 1 /\ ~FalsyInt(Get(@.body, "equipo_id"))
                                  THEN Get(@.body, "equipo_id") ELSE None)])]
  /\ UNCHANGED << revision, db, clock, issued, nreq, hist >>

\* GET /api/equipos
EquiposGet(i) ==
  /\ AtQuery(i, "GET /api/equipos")
  /\ reqs' = [reqs EXCEPT ![i] = Respond(@, 200, [rows |-> SelectEquipos])]
  /\ UNCHANGED << revision, db, clock, issued, nreq, hist >>

\* GET /api/preferencias: res.json(rows[0] || null).  The answer is the set
\* of the rows found, at most one by the UNIQUE usuario_id; {} is null.
PreferenciasGet(i) ==
  LET rows == SelectPreferencias(UserId(reqs[i])) IN
  /\ AtQuery(i, "GET /api/preferencias")
  /\ reqs' = [reqs EXCEPT ![i] = Respond(@, 200, [row |-> rows])]
  /\ UNCHANGED << revision, db, clock, issued, nreq, hist >>

\* POST /api/preferencias: the upsert and the response
PreferenciasSet(i) ==
  LET r   == reqs[i]
      res == PreferenciasUpsert(UserId(r), r.body.equipo_id, r.body.nombre, r.body.logo)
  IN
  /\ AtQuery(i, "POST /api/preferencias")
  /\ preferencias_usuario' = res.rows
  /\ preferencias_id_seq' = preferencias_id_seq + 1
  /\ reqs' = [reqs EXCEPT ![i] =
       IF res.code = Ok THEN Respond(r, 201, [row |-> res.row])
       ELSE Respond(r, 500, [message |-> "Error al guardar preferencia",
                             error |-> res.code])]
  /\ UNCHANGED << revision, usuarios, usuarios_id_seq, carrito, carrito_id_seq,
                  camisetas_guardadas, clock, issued, nreq, hist >>

\* GET /api/camisetas-guardadas
CamisetasGet(i) ==
  /\ AtQuery(i, "GET /api/camisetas-guardadas")
  /\ reqs' = [reqs EXCEPT ![i] = Respond(@, 200, [rows |-> SelectCamisetas(UserId(@))])]
  /\ UNCHANGED << revision, db, clock, issued, nreq, hist >>

\* GET /api/equipos-liga-pro: the key may be unset and the upstream call may fail
LigaProGet(i) ==
  /\ AtQuery(i, "GET /api/equipos-liga-pro")
  /\ \E up \in {"nokey", "error", "ok"} :
       reqs' = [reqs EXCEPT ![i] =
         IF up = "nokey"
         THEN Respond(@, 500, Msg("La API Key de futbol no esta configurada en el servidor."))
         ELSE IF up = "error"
         THEN Respond(@, 500, Msg("Error en el servidor al cargar datos de futbol."))
         ELSE Respond(@, 200, [rows |-> "response.data.response"])]
  /\ UNCHANGED << revision, db, clock, issued, nreq, hist >>

\* time passes: as long as a token lives
Tick ==
  /\ clock < MaxTicks * ExpiresInDays
  /\ clock' = clock + ExpiresInDays
  /\ UNCHANGED << revision, db, reqs, issued, nreq, hist >>

-----------------------------------------------------------------------------
(* The database the server starts on.  initializeDatabase creates the       *)
(* tables IF NOT EXISTS and seeds only an empty store, so the store is the  *)
(* empty one or one that holds the rows of earlier runs.                    *)

Ana == "ana@x.ec"
Bea == "bea@x.ec"

EmptyDb ==
  [usuarios |-> {}, usuarios_id_seq |-> 1, carrito |-> {}, carrito_id_seq |-> 1,
   preferencias_usuario |-> {}, preferencias_id_seq |-> 1,
   camisetas_guardadas |-> {}, pedido |-> {}]

\* revisions 1 and 2: two users with passwords, a cart line of the second
\* one and (revision 2) a preference and saved jerseys
ShopDb(rev) ==
  [usuarios |->
     { [id |-> 1, nombre |-> "Ana", email |-> Ana,
        password |-> Some(BcryptHash("pw1", "salt1")), google_id |-> None],
       [id |-> 2, nombre |-> "Bea", email |-> Bea,
        password |-> Some(BcryptHash("pw2", "salt2")), google_id |-> None] },
   usuarios_id_seq |-> 3,
   carrito |-> { [id |-> 1, usuario_id |-> 2, producto_id |-> 1, cantidad |-> 2] },
   carrito_id_seq |-> 2,
   preferencias_usuario |->
     IF rev = 2
     THEN { [id |-> 1, usuario_id |-> 2, equipo_favorito_id |-> 20,
             equipo_favorito_nombre |-> "Barcelona SC",
             equipo_favorito_logo |-> "bsc.svg"] }
     ELSE {},
   preferencias_id_seq |-> IF rev = 2 THEN 2 ELSE 1,
   camisetas_guardadas |->
     IF rev = 2
     THEN { [id |-> 1, usuario_id |-> 1, producto_id |-> 1],
            [id |-> 2, usuario_id |-> 2, producto_id |-> 2] }
     ELSE {},
   pedido |-> { [usuario_id |-> 2, producto_id |-> 1, n |-> 1, suma |-> 2, dado |-> 2] }]

\* revision 3: a user with a password and no google_id, and a user who
\* signed in with Google before
GoogleDb ==
  [EmptyDb EXCEPT
     !.usuarios =
       { [id |-> 1, nombre |-> "Ana", email |-> Ana,
          password |-> Some(BcryptHash("pw1", "salt1")), google_id |-> None],
         [id |-> 2, nombre |-> "Bea", email |-> Bea,
          password |-> None, google_id |-> Some("g2")] },
     !.usuarios_id_seq = 3]

StartDbs(rev) == { EmptyDb, IF rev = 3 THEN GoogleDb ELSE ShopDb(rev) }

Init ==
  /\ revision \in {1, 2, 3}
  /\ \E d \in StartDbs(revision) :
       /\ usuarios = d.usuarios
       /\ usuarios_id_seq = d.usuarios_id_seq
       /\ carrito = d.carrito
       /\ carrito_id_seq = d.carrito_id_seq
       /\ preferencias_usuario = d.preferencias_usuario
       /\ preferencias_id_seq = d.preferencias_id_seq
       /\ camisetas_guardadas = d.camisetas_guardadas
       /\ pedido = d.pedido
  /\ reqs = [i \in Conn |-> Idle]
  /\ clock = 0
  /\ issued = {}
  /\ nreq = 0
  /\ registrados = {}

-----------------------------------------------------------------------------
(* What the clients send *)

\* POST /auth/register: two valid users, a second body for an email (another
\* name and password), and bodies that lack a field or overrun nombre
NewUsers ==
  { [nombre |-> "Ana", email |-> Ana, password |-> "pw1"],
    [nombre |-> "Bea", email |-> Bea, password |-> "pw2"] }

RegisterBodies ==
  NewUsers
  \cup { [nombre |-> "Otra", email |-> Ana, password |-> "pw2"],
         [email |-> Ana, password |-> "pw1"],
         [nombre |-> "Ana", email |-> Ana, password |-> ""],
         [nombre |-> Str101, email |-> Bea, password |-> "pw2"] }

Credentials ==
  { [email |-> Ana, password |-> "pw1"], [email |-> Bea, password |-> "pw2"] }

LoginBodies ==
  Credentials
  \cup { [email |-> Ana, password |-> "pw2"], [email |-> Ana],
         [email |-> "", password |-> "pw1"] }

GoogleBodies ==
  { [idToken |-> [valid |-> TRUE, sub |-> g, email |-> e, name |-> Some("Ana")]] :
      g \in {"g1", "g2"}, e \in {Ana, Bea} }
  \cup { [idToken |-> [valid |-> TRUE, sub |-> "g1", email |-> Ana, name |-> None]],
         [idToken |-> [valid |-> FALSE, sub |-> "g1", email |-> Ana, name |-> Some("Ana")]],
         << >> }

Bearer(t) == Some(<< Word("Bearer"), SP, t >>)

\* headers that carry a token the server issued
Sessions == { Bearer(t) : t \in issued }

\* tokens nobody was handed: signed with another key, or an issued one
\* with its userId changed
Forged ==
  { JwtSign(u.id, u.email, "otro secreto", clock) : u \in usuarios }
  \cup { [t EXCEPT !.userId = u.id] :
           << t, u >> \in { x \in issued \X usuarios : x[1].userId # x[2].id } }

Headers ==
  { None, Some(<< >>), Some(<< Word("Bearer") >>),
    Some(<< Word("Bearer"), SP, Word("abc") >>),
    Some(<< Word("Bearer"), SP, SP, Word("abc") >>) }
  \cup { Bearer(t) : t \in Forged }
  \cup Sessions

Bodies(route) ==
  IF route = "POST /api/carrito/add" THEN
    { [producto_id |-> p, cantidad |-> c] : p \in {1, 2}, c \in {-1, 0, 2} }
    \cup { [producto_id |-> 1], [cantidad |-> 2], [producto_id |-> 9, cantidad |-> 1],
           [usuario_id |-> 2, producto_id |-> 1, cantidad |-> 2] }
  ELSE IF route = "POST /api/preferencias" THEN
    { [equipo_id |-> 10, nombre |-> "LDU Quito", logo |-> "ldu.svg"],
      [equipo_id |-> 30, nombre |-> "Emelec", logo |-> "emelec.svg"],
      [usuario_id |-> 2, equipo_id |-> 10, nombre |-> "LDU Quito", logo |-> "ldu.svg"],
      [equipo_id |-> 0, nombre |-> "LDU Quito", logo |-> "ldu.svg"],
      [equipo_id |-> 10, nombre |-> "LDU Quito"],
      [equipo_id |-> 10, nombre |-> Str101, logo |-> "ldu.svg"] }
  ELSE IF route = "GET /api/productos" THEN { << >>, [equipo_id |-> 1] }
  ELSE { << >> }

\* one body a route, one that writes when the route is a write
Body(route) ==
  IF route = "POST /api/carrito/add" THEN [producto_id |-> 1, cantidad |-> 2]
  ELSE IF route = "POST /api/preferencias"
    THEN [equipo_id |-> 10, nombre |-> "LDU Quito", logo |-> "ldu.svg"]
  ELSE << >>

AllRoutes ==
  { "GET /api/equipos", "GET /api/productos", "GET /api/carrito",
    "POST /api/carrito/add", "GET /api/preferencias", "POST /api/preferencias",
    "GET /api/camisetas-guardadas", "GET /api/equipos-liga-pro" }

UserRoutes ==
  { "GET /api/carrito", "POST /api/carrito/add", "GET /api/preferencias",
    "POST /api/preferencias", "GET /api/camisetas-guardadas" }

-----------------------------------------------------------------------------
(* The program: every route, every request *)

Queries ==
  \E i \in Conn :
    \/ CarritoAdd(i)
    \/ CarritoGet(i)
    \/ ProductosGet(i)
    \/ EquiposGet(i)
    \/ PreferenciasGet(i)
    \/ PreferenciasSet(i)
    \/ CamisetasGet(i)
    \/ LigaProGet(i)

Next ==
  \/ \E i \in Conn, body \in RegisterBodies : Register(i, body)
  \/ \E i \in Conn : RegisterInsert(i)
  \/ \E i \in Conn, body \in LoginBodies : Login(i, body)
  \/ \E i \in Conn : LoginSelect(i)
  \/ \E i \in Conn, body \in GoogleBodies : Google(i, body)
  \/ \E i \in Conn : GoogleSelect(i)
  \/ \E i \in Conn : GoogleUpdate(i)
  \/ \E i \in Conn : GoogleInsert(i)
  \/ \E i \in Conn, route \in AllRoutes, header \in Headers :
       \E body \in Bodies(route) : Api(i, route, header, body)
  \/ Queries
  \/ Tick

Spec == Init /\ [][Next]_vars

(* The program by parts, each with the requests its routes take *)

\* registration and login (revisions 1 and 2)
NextAuth ==
  \/ \E i \in Conn, body \in RegisterBodies : Register(i, body)
  \/ \E i \in Conn : RegisterInsert(i)
  \/ \E i \in Conn, body \in LoginBodies : Login(i, body)
  \/ \E i \in Conn : LoginSelect(i)

InitAuth == Init /\ revision \in {1, 2}

SpecAuth == InitAuth /\ [][NextAuth]_vars

\* the guard in front of every protected route (revisions 1 and 2)
NextGuard ==
  \/ \E i \in Conn, body \in Credentials : Login(i, body)
  \/ \E i \in Conn : LoginSelect(i)
  \/ \E i \in Conn, route \in AllRoutes, header \in Headers :
       Api(i, route, header, Body(route))
  \/ Queries
  \/ Tick

InitGuard == Init /\ revision \in {1, 2}

SpecGuard == InitGuard /\ [][NextGuard]_vars

\* cart, preference and saved jerseys of users who log in (revisions 1 and 2)
NextShop ==
  \/ \E i \in Conn, body \in Credentials : Login(i, body)
  \/ \E i \in Conn : LoginSelect(i)
  \/ \E i \in Conn, route \in UserRoutes, header \in Sessions :
       \E body \in Bodies(route) : Api(i, route, header, body)
  \/ \E i \in Conn : CarritoAdd(i)
  \/ \E i \in Conn : CarritoGet(i)
  \/ \E i \in Conn : PreferenciasGet(i)
  \/ \E i \in Conn : PreferenciasSet(i)
  \/ \E i \in Conn : CamisetasGet(i)

InitShop == Init /\ revision \in {1, 2}

SpecShop == InitShop /\ [][NextShop]_vars

\* Google sign-in (revision 3)
NextGoogle ==
  \/ \E i \in Conn, body \in GoogleBodies : Google(i, body)
  \/ \E i \in Conn : GoogleSelect(i)
  \/ \E i \in Conn : GoogleUpdate(i)
  \/ \E i \in Conn : GoogleInsert(i)

InitGoogle == Init /\ revision = 3

SpecGoogle == InitGoogle /\ [][NextGoogle]_vars

-----------------------------------------------------------------------------
(* Properties *)

Adds == "POST /api/carrito/add"

\* the cart rows of user u for product p
Lines(tbl, u, p) == { c \in tbl : c.usuario_id = u /\ c.producto_id = p }

\* the quantity user u holds of product p, 0 with no row
Qty(tbl, u, p) ==
  IF Lines(tbl, u, p) = {} THEN 0 ELSE (CHOOSE c \in Lines(tbl, u, p) : TRUE).cantidad

\* the user a request's bearer token names
Caller(r) == Val(r.header)[3].userId

\* C1: for every user u and product p with n >= 1 successful adds that asked
\* for q1..qn, the cart holds exactly one row for (u, p) and its quantity is
\* q1 + ... + qn (an add with no quantity asks for the default, 1).
C1_OneRowWithSum ==
  \A e \in pedido :
    /\ Cardinality(Lines(carrito, e.usuario_id, e.producto_id)) = 1
    /\ Qty(carrito, e.usuario_id, e.producto_id) = e.suma

\* requests i and j are adds of the same user for the same product that the
\* guard let through
SameLine(i, j) ==
  /\ reqs[i].route = Adds /\ reqs[j].route = Adds
  /\ ~IsNone(reqs[i].user) /\ ~IsNone(reqs[j].user)
  /\ UserId(reqs[i]) = UserId(reqs[j])
  /\ reqs[i].loc.producto_id = reqs[j].loc.producto_id

C2_Step ==
  \A i \in Conn :
    ( /\ AtQuery(i, Adds)
      /\ reqs'[i].status = 201
      /\ \E j \in Conn : Overlap(i, j) /\ SameLine(i, j) )
    => LET u == UserId(reqs[i])
           p == Val(reqs[i].loc.producto_id)
       IN  /\ Cardinality(Lines(carrito', u, p)) = 1
           /\ Qty(carrito', u, p) = Qty(carrito, u, p) + Val(reqs[i].loc.cantidad)
           /\ carrito' \ Lines(carrito', u, p) = carrito \ Lines(carrito, u, p)

C2_NoneLost ==
  \A e \in pedido : Qty(carrito, e.usuario_id, e.producto_id) = e.dado

\* C2: an add that is served while another add of the same user for the same
\* product is being served adds its delta to the quantity the row has at that
\* moment and leaves one row, so after both the row holds the earlier quantity
\* plus both deltas: the row always equals the sum of the deltas handed to the
\* store, none is lost.
C2_BothDeltasApplied == [][C2_Step]_vars /\ []C2_NoneLost

\* two overlapping adds of one user for one product have both been answered
C2_Witness ==
  \E i, j \in Conn :
    /\ Overlap(i, j) /\ SameLine(i, j)
    /\ reqs[i].status = 201 /\ reqs[j].status = 201
    /\ Qty(carrito, UserId(reqs[i]), Val(reqs[i].loc.producto_id))
         = reqs[i].out.cantidad + Val(reqs[j].loc.cantidad)

\* C10: every cart row has quantity >= 1.
C10_CantidadAtLeastOne == \A c \in carrito : c.cantidad >= 1

-----------------------------------------------------------------------------
(* Scoping by the token's identity *)

Prefs == "POST /api/preferencias"

\* the rows of a table that user u owns
Owned(tbl, u) == { x \in tbl : x.usuario_id = u }

\* the query of request i ends in this step: the request is answered, or
\* its rejection is left unhandled
Answers(i) ==
  /\ reqs[i].pc = "query" /\ reqs'[i].pc \in {"done", "hung"}
  /\ reqs'[i].pc = "hung" => reqs'[i].out # << >>

\* what the three reads answer comes from rows the caller owns
C4_Reads ==
  \A i \in Conn : (Answers(i) /\ reqs'[i].status = 200) =>
    LET r == reqs[i]
        out == reqs'[i].out
    IN  /\ r.route = "GET /api/carrito" =>
             \A x \in out.rows : \E c \in Owned(carrito, Caller(r)) :
                c.id = x.carrito_id /\ c.producto_id = x.id /\ c.cantidad = x.cantidad
        /\ r.route = "GET /api/preferencias" =>
             out.row \subseteq Owned(preferencias_usuario, Caller(r))
        /\ r.route = "GET /api/camisetas-guardadas" =>
             \A x \in out.rows : \E cs \in Owned(camisetas_guardadas, Caller(r)) :
                cs.producto_id = x.id

\* a step that changes the cart or the preferences is the query of an add or
\* of a preference of some caller, and every row it creates or changes is
\* that caller's: the rows of the others are the same before and after
C4_Writes ==
  (carrito' # carrito \/ preferencias_usuario' # preferencias_usuario) =>
    \E i \in Conn :
      /\ Answers(i)
      /\ reqs[i].route \in {Adds, Prefs}
      /\ reqs[i].route = Adds => preferencias_usuario' = preferencias_usuario
      /\ reqs[i].route = Prefs => carrito' = carrito
      /\ carrito' \ Owned(carrito', Caller(reqs[i]))
           = carrito \ Owned(carrito, Caller(reqs[i]))
      /\ preferencias_usuario' \ Owned(preferencias_usuario', Caller(reqs[i]))
           = preferencias_usuario \ Owned(preferencias_usuario, Caller(reqs[i]))

\* C4: GET /api/carrito, GET /api/preferencias and GET /api/camisetas-guardadas
\* answer only rows owned by the userId of the caller's token, and POST
\* /api/carrito/add and POST /api/preferencias create or change only rows
\* owned by it, whatever the body holds; the rows of other users stay as
\* they are.
C4_ScopedToCaller == [][C4_Reads /\ C4_Writes]_vars

\* a caller wrote a cart line with a body that names another user as owner,
\* and read the cart afterwards while the other user holds a line too
C4_Witness ==
  \E i, j \in Conn :
    /\ reqs[i].route = Adds /\ reqs[i].status = 201
    /\ "usuario_id" \in DOMAIN reqs[i].body
    /\ reqs[i].body.usuario_id # Caller(reqs[i])
    /\ reqs[i].out.usuario_id = Caller(reqs[i])
    /\ reqs[j].route = "GET /api/carrito" /\ reqs[j].status = 200
    /\ Caller(reqs[j]) = Caller(reqs[i])
    /\ reqs[j].out.rows # {}
    /\ Owned(carrito, reqs[i].body.usuario_id) # {}

-----------------------------------------------------------------------------
(* The preference of a user *)

C8_AtMostOneRow ==
  \A x, y \in preferencias_usuario : x.usuario_id = y.usuario_id => x = y

\* a successful POST leaves the caller one row, with the id, name and logo
\* of the call, and answers that row
C8_Set ==
  \A i \in Conn : (Answers(i) /\ reqs[i].route = Prefs /\ reqs'[i].status = 201) =>
    LET mine == Owned(preferencias_usuario', Caller(reqs[i])) IN
    /\ Cardinality(mine) = 1
    /\ \A x \in mine :
         /\ x.equipo_favorito_id = reqs[i].body.equipo_id
         /\ x.equipo_favorito_nombre = reqs[i].body.nombre
         /\ x.equipo_favorito_logo = reqs[i].body.logo
    /\ reqs'[i].out.row = mine

\* the rows change in no other step
C8_OnlySet ==
  preferencias_usuario' # preferencias_usuario =>
    \E i \in Conn : Answers(i) /\ reqs[i].route = Prefs /\ reqs'[i].status = 201

\* GET answers 200 with the caller's row as it is then, null with no row
C8_Get ==
  \A i \in Conn : (Answers(i) /\ reqs[i].route = "GET /api/preferencias") =>
    /\ reqs'[i].status = 200
    /\ reqs'[i].out.row = Owned(preferencias_usuario, Caller(reqs[i]))

\* C8: each user has at most one preference row in every reachable state; a
\* successful POST /api/preferencias, concurrent with another or not, leaves
\* the caller's single row holding exactly its id, name and logo and answers
\* that row, so the row is that of the last call applied; GET
\* /api/preferencias answers that row, or null when the user has none.
C8_OneRowLastWins == []C8_AtMostOneRow /\ [][C8_Set /\ C8_OnlySet /\ C8_Get]_vars

\* two overlapping POSTs of one user with different teams were both answered
\* 201 and the row is the one of them
C8_Witness ==
  \E i, j \in Conn :
    /\ Overlap(i, j)
    /\ reqs[i].route = Prefs /\ reqs[j].route = Prefs
    /\ reqs[i].status = 201 /\ reqs[j].status = 201
    /\ Caller(reqs[i]) = Caller(reqs[j])
    /\ reqs[i].body.equipo_id # reqs[j].body.equipo_id
    /\ Owned(preferencias_usuario, Caller(reqs[i])) = reqs[j].out.row
    /\ reqs[i].out.row # reqs[j].out.row

-----------------------------------------------------------------------------
(* Registration and login *)

Registers == "POST /auth/register"
Logins    == "POST /auth/login"

\* request i is answered in this step
Ends(i) == reqs'[i].pc = "done" /\ reqs'[i] # reqs[i]

\* the request answered on connection i in this step
Ended(i) == reqs'[i]

\* some user has the email of body b
Stored(b) == \E u \in usuarios : Some(u.email) = Get(b, "email")

\* name, email and password are there, not empty, and fit their columns
ValidUser(b) ==
  /\ ~FalsyStr(Get(b, "nombre")) /\ ~FalsyStr(Get(b, "email"))
  /\ ~FalsyStr(Get(b, "password"))
  /\ Len(b.nombre) <= VarcharNombre /\ Len(b.email) <= VarcharEmail

C5_UniqueEmail == \A u, v \in usuarios : u.email = v.email => u = v

\* Register with a stored email, whatever the name and the password: 409,
\* and the users are the same after
C5_Always409 ==
  \A i \in Conn : (Ends(i) /\ Ended(i).route = Registers /\ Stored(Ended(i).body)) =>
    Ended(i).status = 409 /\ usuarios' = usuarios

\* two answered Register calls that overlapped, for one email that no user
\* had before them
C5_Raced(i, j) ==
  /\ Overlap(i, j)
  /\ reqs[i].route = Registers /\ reqs[j].route = Registers
  /\ reqs[i].pc = "done" /\ reqs[j].pc = "done"
  /\ ValidUser(reqs[i].body) /\ ValidUser(reqs[j].body)
  /\ reqs[i].body.email = reqs[j].body.email
  /\ \A u \in usuarios : u.email = reqs[i].body.email =>
        \E g \in registrados : g.id = u.id /\ g.n \in {reqs[i].n, reqs[j].n}

C5_OneWins ==
  \A i, j \in Conn : C5_Raced(i, j) => {reqs[i].status, reqs[j].status} = {201, 409}

\* C5 as the specification words it: Register with an email that is already stored
\* always fails with 409, regardless of name and password, creates no row and
\* leaves the existing user unchanged; of two concurrent Register calls for
\* one new email exactly one answers 201 and the other 409, and no two users
\* share an email.
C5_DuplicateAlways409 == [][C5_Always409]_vars /\ []C5_OneWins /\ []C5_UniqueEmail

\* Register with a stored email never creates or changes a user and never
\* answers 201: 400 when a field is missing or empty, 409 when the three
\* fields are valid
C5_Refused ==
  \A i \in Conn : (Ends(i) /\ Ended(i).route = Registers /\ Stored(Ended(i).body)) =>
    /\ usuarios' = usuarios
    /\ Ended(i).status # 201
    /\ ValidUser(Ended(i).body) => Ended(i).status = 409
    /\ ( \/ FalsyStr(Get(Ended(i).body, "nombre"))
         \/ FalsyStr(Get(Ended(i).body, "password")) ) => Ended(i).status = 400

\* C5: Register with an email that is already stored, and with a name, an
\* email and a password that are not empty and fit their columns (name of at
\* most 100 characters), fails with 409; with any name and password it
\* creates no row, leaves the existing user unchanged and never answers 201
\* (400 when a field is missing or empty).  Of two concurrent Register calls
\* with valid fields for one new email exactly one answers 201 and the other
\* 409, and the store never holds two users with the same email.
C5_DuplicateRefused == [][C5_Refused]_vars /\ []C5_OneWins /\ []C5_UniqueEmail

\* two overlapping Register calls for a new email, with different names and
\* passwords: one was answered 201, the other 409
C5_Witness ==
  \E i, j \in Conn :
    /\ C5_Raced(i, j)
    /\ reqs[i].body # reqs[j].body
    /\ reqs[i].status = 201 /\ reqs[j].status = 409
    /\ Cardinality({ u \in usuarios : u.email = reqs[i].body.email }) = 1

\* what the guard makes of a session token
Verified(token) == AuthenticateToken(Bearer(token), clock)

\* Register with valid fields and an unused email answers 201, and its token
\* verifies to the id of the user it created
C6_Register ==
  \A i \in Conn : (Ends(i) /\ Ended(i).route = Registers /\ reqs[i].pc = "insert") =>
    /\ (ValidUser(reqs[i].body) /\ ~Stored(reqs[i].body)) => Ended(i).status = 201
    /\ Ended(i).status = 201 =>
         /\ \E u \in usuarios' \ usuarios :
              /\ u.email = reqs[i].body.email
              /\ Ended(i).out.usuario.id = u.id
              /\ usuarios' = usuarios \cup {u}
         /\ Verified(Ended(i).out.token).status = 0
         /\ Val(Verified(Ended(i).out.token).user).userId = Ended(i).out.usuario.id

\* Login with the email and password of an earlier Register answers 200, and
\* its token verifies to the id that Register created
C6_Login ==
  \A i \in Conn : (Ends(i) /\ Ended(i).route = Logins /\ reqs[i].pc = "select") =>
    \A g \in registrados :
      (g.email = reqs[i].body.email /\ g.password = reqs[i].body.password) =>
        /\ Ended(i).status = 200
        /\ Verified(Ended(i).out.token).status = 0
        /\ Val(Verified(Ended(i).out.token).user).userId = g.id

\* C6: Register with valid fields and an unused email succeeds and its token
\* verifies at the guard to the userId it created; a later Login with the
\* same email and password, whatever was served in between, answers 200
\* with a token that verifies to that same userId.
C6_RegisterThenLogin == [][C6_Register /\ C6_Login]_vars

\* a user registered in this run has logged in
C6_Witness ==
  \E i \in Conn, g \in registrados :
    /\ reqs[i].route = Logins /\ reqs[i].status = 200
    /\ reqs[i].body.email = g.email /\ reqs[i].body.password = g.password
    /\ reqs[i].out.usuario.id = g.id
    /\ reqs[i].out.token.userId = g.id
    /\ reqs[i].n > g.n + 1

\* the password of body b is not the one of user u
WrongPassword(b, u) == ~BcryptCompare(b.password, Val(u.password))

\* a Login for an email that no user has, and a Login with a wrong password
\* for an email that a user has, are answered 401
C7_Fail ==
  \A i \in Conn :
    ( /\ Ends(i) /\ Ended(i).route = Logins /\ reqs[i].pc = "select"
      /\ \/ \A u \in usuarios : u.email # reqs[i].body.email
         \/ \E u \in usuarios : /\ u.email = reqs[i].body.email
                                 /\ WrongPassword(reqs[i].body, u) )
    => Ended(i).status = 401

\* request i is a Login that was refused for its credentials
C7_Refused(i) ==
  reqs[i].route = Logins /\ reqs[i].pc = "done" /\ reqs[i].status \notin {200, 400}

C7_Same ==
  \A i, j \in Conn : (C7_Refused(i) /\ C7_Refused(j)) =>
    reqs[i].status = reqs[j].status /\ reqs[i].out = reqs[j].out

\* C7: Login with a registered email and a wrong password and Login with an
\* email that no user has are both answered 401 with the same body: any two
\* refused Logins have the same status and the same body.
C7_SameFailure == [][C7_Fail]_vars /\ []C7_Same

\* a Login with a wrong password for a stored email and a Login for an email
\* that no user has have both been answered
C7_Witness ==
  \E i, j \in Conn :
    /\ C7_Refused(i) /\ C7_Refused(j)
    /\ \E u \in usuarios : u.email = reqs[i].body.email /\ WrongPassword(reqs[i].body, u)
    /\ \A u \in usuarios : u.email # reqs[j].body.email
    /\ reqs[i].status = 401 /\ reqs[j].status = 401 /\ reqs[i].out = reqs[j].out

-----------------------------------------------------------------------------
(* The guard *)

\* what follows the scheme in an Authorization header: its words, the
\* spaces left out
Credentials_(h) ==
  IF IsNone(h) \/ Val(h) = << >> THEN << >>
  ELSE SelectSeq(Tail(Val(h)), LAMBDA x : x.t # "sp")

\* the request carries no bearer token: no header, or nothing after the scheme
NoToken(h) == Credentials_(h) = << >>

\* request i arrives at a protected route in this step
Arrives(i) ==
  /\ nreq' = nreq + 1 /\ reqs'[i].n = nreq'
  /\ reqs'[i].route \in AllRoutes

C3_Rejects ==
  \A i \in Conn : Arrives(i) =>
    LET r == reqs'[i] IN
    /\ NoToken(r.header) =>
         r.pc = "done" /\ r.status = 401 /\ IsNone(r.user)
    /\ (~NoToken(r.header) /\ JwtVerify(Credentials_(r.header), JWT_SECRET, clock).err) =>
         r.pc = "done" /\ r.status = 403 /\ IsNone(r.user)
    /\ (~NoToken(r.header) /\ ~JwtVerify(Credentials_(r.header), JWT_SECRET, clock).err) =>
         r.user = JwtVerify(Credentials_(r.header), JWT_SECRET, clock).user
    /\ UNCHANGED db

\* a handler acts only for a request that holds verified claims, and the
\* store changes only when a handler acts
C3_HandlerAfterGuard ==
  /\ \A i \in Conn :
       (reqs[i].route \in AllRoutes /\ reqs[i].pc = "query" /\ reqs'[i] # reqs[i]) =>
          /\ ~IsNone(reqs[i].user)
          /\ \E t \in issued : JwtPayload(t) = Val(reqs[i].user)
  /\ \A i \in Conn :
       (reqs[i].route \in AllRoutes /\ reqs[i].pc = "done" /\ reqs[i].status \in {401, 403}) =>
          (reqs'[i] = reqs[i] \/ reqs'[i].n > reqs[i].n)
  /\ db' # db => \E i \in Conn : reqs[i].pc = "query" /\ reqs'[i].pc # "query"

\* C3: at every protected route a request that carries no bearer token is
\* answered 401 and one whose token fails verification (bad signature,
\* malformed, expired) is answered 403; in both cases no handler runs and
\* the store is unchanged; a handler runs only after verification succeeded
\* and the verified claims were attached to the request.
C3_GuardRejects == [][C3_Rejects /\ C3_HandlerAfterGuard]_vars

-----------------------------------------------------------------------------
(* Google sign-in *)

Googles == "POST /auth/google"

\* request i, which holds a verified identity, is answered in this step
GoogleEnds(i) ==
  /\ reqs[i].route = Googles /\ reqs[i].pc \in {"select", "update", "insert"}
  /\ reqs'[i].pc = "done"

\* the users with email e
WithEmail(tbl, e) == { u \in tbl : u.email = e }

C9_Cases ==
  \A i \in Conn : GoogleEnds(i) =>
    LET e == reqs[i].loc.email
        g == reqs[i].loc.google_id
        before == WithEmail(usuarios, e)
        after  == WithEmail(usuarios', e)
    IN
    /\ before = {} =>
         /\ \E u \in after : IsNone(u.password) /\ u.google_id = Some(g)
         /\ usuarios' \ after = usuarios
    /\ \A u \in before : IsNone(u.google_id) =>
         usuarios' = (usuarios \ {u}) \cup { [u EXCEPT !.google_id = Some(g)] }
    /\ \A u \in before : ~IsNone(u.google_id) => usuarios' = usuarios
    /\ Cardinality(after) = 1
    /\ reqs'[i].status = 200
    /\ \A u \in after : reqs'[i].out.token.userId = u.id

\* C9: Google sign-in with a verified identity (email e, external id g): with
\* no user of email e, one user is created with email e, no password and
\* external id g; with a user of email e that has no external id, g is
\* attached and nothing else of it changes; with one that has an external id
\* the row is left as it is.  In the three cases there is one row for e
\* after, and the token answered carries its id.
C9_ThreeCases == [][C9_Cases]_vars

-----------------------------------------------------------------------------
(* Failures of the store *)

\* request i is an add that the guard let through and whose body has no
\* product id
NoProductId(r) ==
  r.route = Adds /\ ~IsNone(r.user) /\ IsNone(Get(r.body, "producto_id"))

\* the request on connection i is over: answered or left for good
Over(r) == r.pc \in {"done", "hung"}

C11_Step ==
  \A i \in Conn : (NoProductId(reqs'[i]) /\ reqs'[i] # reqs[i]) =>
    /\ carrito' = carrito
    /\ Over(reqs'[i]) => (reqs'[i].pc = "done" /\ reqs'[i].status = 400)

\* C11: an authenticated POST /api/carrito/add whose body has no product id
\* is answered 400 and leaves the cart as it was.
C11_MissingProduct400 == [][C11_Step]_vars

\* the SQLSTATE the statement of request i fails with at its await, "" when
\* it succeeds
Failure(i) ==
  LET r == reqs[i] IN
  IF r.route = Adds /\ r.pc = "query"
    THEN CarritoUpsert(UserId(r), r.loc.producto_id, r.loc.cantidad).code
  ELSE IF r.route = Prefs /\ r.pc = "query"
    THEN PreferenciasUpsert(UserId(r), r.body.equipo_id, r.body.nombre, r.body.logo).code
  ELSE IF r.route = Registers /\ r.pc = "insert"
    THEN InsertUsuario(Get(r.body, "nombre"), Get(r.body, "email"),
                       Some(r.loc.passwordHash), None).code
  ELSE Ok

\* a statement that fails is reported in the same step, 409 for a duplicate
\* email and 500 otherwise, and writes nothing
C12_Reported ==
  \A i \in Conn : (Failure(i) # Ok /\ reqs'[i] # reqs[i]) =>
    /\ reqs'[i].pc = "done"
    /\ reqs'[i].status =
         IF reqs[i].route = Registers /\ Failure(i) = UniqueViolation THEN 409 ELSE 500
    /\ usuarios' = usuarios /\ carrito' = carrito
    /\ preferencias_usuario' = preferencias_usuario

\* no request is left without a response, and a response is the only one
C12_OneResponse ==
  \A i \in Conn :
    /\ reqs'[i].pc # "hung"
    /\ reqs[i].pc = "done" => (reqs'[i] = reqs[i] \/ reqs'[i].n > reqs[i].n)

\* C12: every request gets exactly one response, also when its store
\* operation fails: the failure is reported as 500 (409 for a duplicate
\* email) in the step that meets it, nothing is retried, and no request is
\* left without a response.
C12_FailureReported == [][C12_Reported /\ C12_OneResponse]_vars

\* C13: Google sign-in answers 401 only when the verification of the idToken
\* fails: with a verified identity it answers 200 with a token for the one
\* user of that email, whatever other requests are served meanwhile.
C13_FailsOnlyUnverified ==
  [][ \A i \in Conn :
        (reqs'[i].route = Googles /\ reqs'[i].pc = "done" /\ reqs'[i] # reqs[i]) =>
          LET r == reqs'[i]
              t == VerifyIdToken(Get(r.body, "idToken"))
          IN  /\ IsNone(t) => r.status = 401
              /\ ~IsNone(t) =>
                   /\ r.status = 200
                   /\ Cardinality(WithEmail(usuarios', Val(t).email)) = 1
                   /\ \A u \in WithEmail(usuarios', Val(t).email) :
                        r.out.token.userId = u.id ]_vars

====
